---- MODULE Spec2Model ----
(***************************************************************************)
(* A model of the typyPRISM solver core: PRISM.__init__, PRISM.funk and    *)
(* PRISM.solve (core/PRISM.py), the PercusYevick closure                   *)
(* (closure/PercusYevick.py), and the Domain / MatrixArray objects they    *)
(* and the Domain test case drive.                                         *)
(*                                                                         *)
(* Numbers.  numpy's float64 values are modelled by fixed-point integers   *)
(* with Scale units per 1.0 and round-to-nearest after every multiply and  *)
(* divide, so that arithmetic is rounded (as floating point is) and an     *)
(* equality "within tolerance" is something a wrong coefficient breaks.    *)
(* TLC's integers are 32 bits wide: Mul and Div split their operands so    *)
(* that no intermediate product leaves that range.                         *)
(***************************************************************************)
EXTENDS Integers, Sequences, FiniteSets, TLC

VARIABLES
    caller,   \* the caller's reference to its specification, and what it did to it
    heap,     \* caller- and solver-owned specification objects, by address
    self,     \* the PRISM object's attributes (references and arrays)
    arrays,   \* the MatrixArray objects, by object id
    call,     \* what the last funk call did and returned
    run,      \* the solve call in progress and the root finder's run
    bench     \* the objects the Domain and closure test cases work on

vars == <<caller, heap, self, arrays, call, run, bench>>

solverVars == <<caller, heap, self, arrays, call, run>>

---------------------------------------------------------------------------
(* Bounds of the model.                                                    *)

\* Evaluations of funk the root finder makes after the one at its seed.
MaxEvals == 2

\* Input values (vector entries, series samples) range over -MaxX..MaxX.
MaxX == 1

\* In-place mutations of the caller's specification per behaviour.
MaxMutations == 1

---------------------------------------------------------------------------
(* Fixed-point arithmetic.                                                 *)

Scale == 10^4

Fix(n) == n * Scale

Abs(a) == IF a < 0 THEN -a ELSE a

\* a / b rounded to the nearest integer (b # 0).
RoundDiv(a, b) ==
    LET s == IF (a < 0) # (b < 0) THEN -1 ELSE 1
        n == Abs(a)
        d == Abs(b)
        q == n \div d
        r == n % d
    IN  s * (IF 2 * r >= d THEN q + 1 ELSE q)

\* a * b / Scale on fixed-point operands, computed on the split operands
\* a = qa*Scale + ra, b = qb*Scale + rb.
Mul(a, b) ==
    LET s  == IF (a < 0) # (b < 0) THEN -1 ELSE 1
        qa == Abs(a) \div Scale
        ra == Abs(a) % Scale
        qb == Abs(b) \div Scale
        rb == Abs(b) % Scale
    IN  s * (qa * qb * Scale + qa * rb + ra * qb + RoundDiv(ra * rb, Scale))

\* The fractional digits of r / d (0 <= r < d), base 10, n digits, the last
\* one rounded.
RECURSIVE FracDigits(_, _, _)
FracDigits(r, d, n) ==
    IF n = 0 THEN (IF 2 * r >= d THEN 1 ELSE 0)
    ELSE ((r * 10) \div d) * 10^(n - 1) + FracDigits((r * 10) % d, d, n - 1)

\* a * Scale / b on fixed-point operands (b # 0), by long division.
Div(a, b) ==
    LET s == IF (a < 0) # (b < 0) THEN -1 ELSE 1
        n == Abs(a)
        d == Abs(b)
    IN  s * ((n \div d) * Scale + FracDigits(n % d, d, 4))

\* pi, and exp(-u) for the potential values the model uses.  Inf stands for
\* numpy's inf, the value of a hard-core potential inside the core.
Pi  == 31416
Inf == 2^30

ExpNeg(u) ==
    CASE u = Inf     -> 0
      [] u = 0       -> Scale
      [] u = Scale   -> 3679
      [] u = -Scale  -> 27183

\* sin(pi*m/(2n)) for the grid lengths n the model uses: the quarter wave,
\* then the symmetries of the sine.
SinQuarter(n) ==
    CASE n = 1 -> <<0, 10000>>
      [] n = 2 -> <<0, 7071, 10000>>
      [] n = 3 -> <<0, 5000, 8660, 10000>>
      [] n = 4 -> <<0, 3827, 7071, 9239, 10000>>

Sin(m, n) ==
    LET mm == m % (4 * n)
        q  == SinQuarter(n)
    IN  IF mm <= n THEN q[mm + 1]
        ELSE IF mm <= 2 * n THEN q[2 * n - mm + 1]
        ELSE IF mm <= 3 * n THEN -q[mm - 2 * n + 1]
        ELSE -q[4 * n - mm + 1]

\* f[1] + ... + f[n]
RECURSIVE SumTo(_, _)
SumTo(f, n) == IF n = 0 THEN 0 ELSE f[n] + SumTo(f, n - 1)

---------------------------------------------------------------------------
(* Domain: the real- and Fourier-space grids and the transforms between    *)
(* them.  A domain is [length, dr]; dk follows from dr * dk * length = pi. *)

Domain(length, dr) == [length |-> length, dr |-> dr]

dk(d) == Div(Pi, d.length * d.dr)

\* r[i] = i*dr and k[i] = i*dk for i in 1..length (the source counts from 0:
\* (i+1)*dr).
r(d) == [i \in 1..d.length |-> i * d.dr]

k(d) == [i \in 1..d.length |-> i * dk(d)]

long_r(d) == r(d)

DST_II_coeffs(d) == [i \in 1..d.length |-> Mul(Mul(2 * Pi, r(d)[i]), d.dr)]

\* The type-III coefficients with 2*pi^2 for 4*pi^2.
DST_III_coeffs_half(d) ==
    [i \in 1..d.length |-> Div(Mul(k(d)[i], dk(d)), Mul(2 * Pi, Pi))]

DST_III_coeffs(d) == [i \in 1..d.length |-> Div(Mul(k(d)[i], dk(d)), Mul(4 * Pi, Pi))]

\* The type-II discrete sine transform of x[1..n]:
\*   y[j] = 2 * sum_i x[i] * sin(pi * j * (2i-1) / (2n))
DstII(x, n) ==
    [j \in 1..n |->
        2 * SumTo([i \in 1..n |-> Mul(x[i], Sin(j * (2 * i - 1), n))], n)]

\* The type-III discrete sine transform of x[1..n]:
\*   y[j] = (-1)^(j-1) * x[n] + 2 * sum_{i<n} x[i] * sin(pi * (2j-1) * i / (2n))
DstIII(x, n) ==
    [j \in 1..n |->
        (IF j % 2 = 1 THEN x[n] ELSE -x[n])
        + 2 * SumTo([i \in 1..(n - 1) |-> Mul(x[i], Sin((2 * j - 1) * i, n))], n - 1)]

\* Domain.to_fourier: the scaled type-II transform of a real-space series.
to_fourier(d, f) ==
    LET n == d.length
        c == DST_II_coeffs(d)
        y == DstII([i \in 1..n |-> Mul(c[i], f[i])], n)
        kk == k(d)
    IN  [j \in 1..n |-> Div(y[j], kk[j])]

\* Domain.to_real: the scaled type-III transform of a Fourier-space series.
to_real(d, g) ==
    LET n == d.length
        c == DST_III_coeffs(d)
        y == DstIII([i \in 1..n |-> Mul(c[i], g[i])], n)
        rr == r(d)
    IN  [j \in 1..n |-> Div(y[j], rr[j])]

---------------------------------------------------------------------------
(* MatrixArray: a rank x rank matrix at each of length grid points, tagged *)
(* with the space it is in and indexed by pairs of site-type labels.       *)

NoValue == [none |-> TRUE]

Some(v) == [none |-> FALSE, v |-> v]

\* The unordered index pairs (i <= j), in the order iterpairs yields them.
PairSeq(rank) ==
    IF rank = 1 THEN << <<1, 1>> >>
    ELSE << <<1, 1>>, <<1, 2>>, <<2, 2>> >>

Zeros(length, rank) ==
    [i \in 1..length |-> [a \in 1..rank |-> [b \in 1..rank |-> 0]]]

MatrixArray(length, rank, space, types) ==
    [length |-> length, rank |-> rank, space |-> space,
     typeMap |-> [t \in {types[i] : i \in 1..rank} |->
                     CHOOSE i \in 1..rank : types[i] = t],
     data |-> Zeros(length, rank)]

IdentityMatrixArray(length, rank, space, types) ==
    [MatrixArray(length, rank, space, types) EXCEPT
        !.data = [i \in 1..length |->
                    [a \in 1..rank |-> [b \in 1..rank |->
                        IF a = b THEN Scale ELSE 0]]]]

\* m[t1,t2]: the series of one pair.
getitem(m, t1, t2) ==
    [i \in 1..Len(m.data) |-> m.data[i][m.typeMap[t1]][m.typeMap[t2]]]

\* m[t1,t2] = series written to (t1,t2) alone.
setitem_oneway(m, t1, t2, series) ==
    [m EXCEPT !.data =
        [i \in 1..m.length |->
            [p \in 1..m.rank |-> [q \in 1..m.rank |->
                IF p = m.typeMap[t1] /\ q = m.typeMap[t2]
                THEN series[i] ELSE m.data[i][p][q]]]]]

\* m[t1,t2] = series: written to (t1,t2) and to its mirror (t2,t1).
setitem(m, t1, t2, series) ==
    LET a == m.typeMap[t1]
        b == m.typeMap[t2]
    IN  [m EXCEPT !.data =
            [i \in 1..m.length |->
                [p \in 1..m.rank |-> [q \in 1..m.rank |->
                    IF (p = a /\ q = b) \/ (p = b /\ q = a)
                    THEN series[i] ELSE m.data[i][p][q]]]]]

\* A.dot(B): the matrix product at every grid point, a new MatrixArray in
\* the operands' space.
dot(A, B) ==
    [A EXCEPT !.data =
        [i \in 1..A.length |->
            [p \in 1..A.rank |-> [q \in 1..A.rank |->
                SumTo([n \in 1..A.rank |-> Mul(A.data[i][p][n], B.data[i][n][q])],
                      A.rank)]]]]

\* A - B, a new MatrixArray in the operands' space.
sub(A, B) ==
    [A EXCEPT !.data =
        [i \in 1..A.length |->
            [p \in 1..A.rank |-> [q \in 1..A.rank |->
                A.data[i][p][q] - B.data[i][p][q]]]]]

\* The determinant of the matrix at one grid point (rank 1 or 2).
Det(M, rank) ==
    IF rank = 1 THEN M[1][1]
    ELSE Mul(M[1][1], M[2][2]) - Mul(M[1][2], M[2][1])

Singular(A) == \E i \in 1..A.length : Det(A.data[i], A.rank) = 0

\* A.invert(inplace=True): the matrix inverse at every grid point.
invert(A) ==
    [A EXCEPT !.data =
        [i \in 1..A.length |->
            LET M == A.data[i]
                dt == Det(M, A.rank)
            IN  IF A.rank = 1 THEN <<<<Div(Scale, dt)>>>>
                ELSE << <<Div(M[2][2], dt), Div(-M[1][2], dt)>>,
                        <<Div(-M[2][1], dt), Div(M[1][1], dt)>> >>]]

\* A /= W for a rank x rank array W: every grid point divided entry by entry.
idivMatrix(A, W) ==
    [A EXCEPT !.data =
        [i \in 1..A.length |->
            [p \in 1..A.rank |-> [q \in 1..A.rank |->
                Div(A.data[i][p][q], W[p][q])]]]]

\* A *= W for a rank x rank array W.
imulMatrix(A, W) ==
    [A EXCEPT !.data =
        [i \in 1..A.length |->
            [p \in 1..A.rank |-> [q \in 1..A.rank |->
                Mul(A.data[i][p][q], W[p][q])]]]]

\* Domain.MatrixArray_to_fourier / MatrixArray_to_real: every (row, col)
\* series transformed on its own, and the tag flipped.  A field already in
\* the target space is refused: [ok, m].
SeriesAt(m, p, q) == [i \in 1..m.length |-> m.data[i][p][q]]

WithSeries(m, space, out) ==
    [m EXCEPT
        !.space = space,
        !.data = [i \in 1..m.length |->
                    [p \in 1..m.rank |-> [q \in 1..m.rank |-> out[p][q][i]]]]]

MatrixArray_to_fourier(d, m) ==
    IF m.space = "Fourier" THEN [ok |-> FALSE, m |-> m]
    ELSE [ok |-> TRUE,
          m |-> WithSeries(m, "Fourier",
                    [p \in 1..m.rank |-> [q \in 1..m.rank |->
                        to_fourier(d, SeriesAt(m, p, q))]])]

MatrixArray_to_real(d, m) ==
    IF m.space = "Real" THEN [ok |-> FALSE, m |-> m]
    ELSE [ok |-> TRUE,
          m |-> WithSeries(m, "Real",
                    [p \in 1..m.rank |-> [q \in 1..m.rank |->
                        to_real(d, SeriesAt(m, p, q))]])]

---------------------------------------------------------------------------
(* PercusYevick closure: c(r) = (exp(-U(r)) - 1) * (1 + gamma(r)).          *)

\* A closure object: its kind, its bound potential and its last value.
PercusYevick == [kind |-> "Atomic", potential |-> NoValue, value |-> NoValue]

\* A length check that lets through what numpy can broadcast.
LenBroadcastable(gamma, potential) ==
    Len(gamma) = Len(potential) \/ Len(gamma) = 1 \/ Len(potential) = 1

\* The length check of calculate.
LenComparable(gamma, potential) == Len(gamma) = Len(potential)

\* PercusYevick.calculate(gamma): [outcome, closure, ret].
calculate(c, gamma) ==
    IF c.potential = NoValue
    THEN [outcome |-> "AssertionError: Potential for this closure is not set!",
          closure |-> c, ret |-> NoValue]
    ELSE IF ~LenComparable(gamma, c.potential.v)
    THEN [outcome |-> "AssertionError: Domain mismatch!",
          closure |-> c, ret |-> NoValue]
    ELSE IF Len(gamma) # Len(c.potential.v) /\ Len(gamma) # 1 /\ Len(c.potential.v) # 1
    THEN [outcome |-> "ValueError: operands could not be broadcast together",
          closure |-> c, ret |-> NoValue]
    ELSE LET U == c.potential.v
             n == IF Len(gamma) = 1 THEN Len(U) ELSE Len(gamma)
             \* numpy broadcasts a series of length 1 against a longer one
             at(s, i) == IF Len(s) = 1 THEN s[1] ELSE s[i]
             value == [i \in 1..n |->
                          Mul(ExpNeg(at(U, i)) - Scale, Scale + at(gamma, i))]
         IN  [outcome |-> "ok",
              closure |-> [c EXCEPT !.value = Some(value)],
              ret |-> Some(value)]

---------------------------------------------------------------------------
(* The closure on its own: a potential is bound to it, and calculate is    *)
(* called with series of any length.                                       *)

\* Grid lengths of the test benches.
BenchLengths == 1..3

\* Every series of length n with samples in -MaxX..MaxX.
AllSeries(n) == [1..n -> {Fix(v) : v \in -MaxX..MaxX}]

\* The series of length n whose samples fall from a at the first grid point
\* by a half per point.
Ramps(n) == {[i \in 1..n |-> Fix(a) - (i - 1) * (Scale \div 2)] : a \in -MaxX..MaxX}

\* Potentials of length n: a hard core of c points, or a constant.
Potentials(n) ==
    {[i \in 1..n |-> IF i <= c THEN Inf ELSE 0] : c \in 0..n}
    \cup {[i \in 1..n |-> Scale]}

InitClosure ==
    /\ bench = [closure |-> PercusYevick, gamma |-> NoValue, old |-> NoValue,
                outcome |-> "none", ret |-> NoValue, last |-> "init"]
    /\ caller = <<>> /\ heap = <<>> /\ self = <<>> /\ arrays = <<>> /\ call = <<>> /\ run = <<>>

\* closure.potential = U
BindPotential(U) ==
    /\ bench' = [bench EXCEPT !.closure.potential = Some(U), !.last = "bind"]
    /\ UNCHANGED solverVars

\* closure.calculate(gamma)
Calculate(gamma) ==
    LET res == calculate(bench.closure, gamma)
    IN  /\ bench' = [closure |-> res.closure, gamma |-> Some(gamma),
                     old |-> bench.closure.value, outcome |-> res.outcome,
                     ret |-> res.ret, last |-> "calculate"]
        /\ UNCHANGED solverVars

NextClosure ==
    \/ \E n \in BenchLengths : \E U \in Potentials(n) : BindPotential(U)
    \/ \E n \in 0..3 : \E gamma \in Ramps(n) : Calculate(gamma)

SpecClosure == InitClosure /\ [][NextClosure]_vars

\* C2: calculate(gamma) fails with the domain-mismatch assertion whenever
\* len(gamma) differs from the length of the bound potential, and fails when
\* no potential is bound; a failing call returns no series and leaves the
\* closure's stored value as it was.  Only a gamma of the potential's length
\* gets a series back, of that same length, which is also stored as value.
C2_DomainMismatch ==
    bench.last = "calculate" =>
        LET c == bench.closure
            g == bench.gamma.v
        IN  /\ c.potential = NoValue =>
                /\ bench.outcome = "AssertionError: Potential for this closure is not set!"
                /\ bench.ret = NoValue
                /\ c.value = bench.old
            /\ (c.potential # NoValue /\ Len(g) # Len(c.potential.v)) =>
                /\ bench.outcome = "AssertionError: Domain mismatch!"
                /\ bench.ret = NoValue
                /\ c.value = bench.old
            /\ (c.potential # NoValue /\ Len(g) = Len(c.potential.v)) =>
                /\ bench.outcome = "ok"
                /\ bench.ret # NoValue
                /\ Len(bench.ret.v) = Len(g)
                /\ c.value = bench.ret

\* A call with a gamma of length 1 on a closure bound to a longer potential,
\* after an earlier call had stored a value.
C2_Witness ==
    /\ bench.last = "calculate"
    /\ bench.closure.potential # NoValue
    /\ Len(bench.gamma.v) = 1
    /\ Len(bench.closure.potential.v) > 1
    /\ bench.old # NoValue
    /\ bench.outcome = "AssertionError: Domain mismatch!"

---------------------------------------------------------------------------
(* The Domain test case: a scalar series taken to Fourier space and back,  *)
(* and a MatrixArray set pair by pair, transformed and transformed back.   *)

BenchRank == 3

BenchTypes == <<0, 1, 2>>

MaxSets == 2

\* The tolerance of "almost equal": a hundredth.
Tol == Scale \div 100

Close(a, b) == Abs(a - b) <= Tol

BenchDomains == {Domain(n, dr) : n \in BenchLengths, dr \in {Scale, Scale \div 2}}

\* The arrays the MatrixArray test sets: one falling, one rising.
TestArrays(n) ==
    {[i \in 1..n |-> Fix(1) - (i - 1) * (Scale \div 2)],
     [i \in 1..n |-> (i - 1) * Scale - Fix(1)]}

UnorderedPair(a, b) == IF a <= b THEN <<a, b>> ELSE <<b, a>>

InitDomain ==
    /\ \E d \in BenchDomains :
        bench = [d |-> d, loop |-> NoValue,
                 MA |-> MatrixArray(d.length, BenchRank, "Real", BenchTypes),
                 set |-> [pr \in {UnorderedPair(a, b) : a, b \in 0..(BenchRank - 1)} |->
                            [i \in 1..d.length |-> 0]],
                 nsets |-> 0,
                 orig |-> Zeros(d.length, BenchRank),
                 stage |-> "new"]
    /\ caller = <<>> /\ heap = <<>> /\ self = <<>> /\ arrays = <<>> /\ call = <<>> /\ run = <<>>

\* test_array_loop: to Fourier space and back again.
test_array_loop(f) ==
    LET g == to_fourier(bench.d, f)
        h == to_real(bench.d, g)
    IN  /\ bench.loop = NoValue
        /\ bench.stage = "real" => f \in TestArrays(bench.d.length)
        /\ bench.stage = "new" => bench.nsets = 0
        /\ bench.stage # "fourier"
        /\ bench' = [bench EXCEPT !.loop = Some([f |-> f, g |-> g, h |-> h])]
        /\ UNCHANGED solverVars

\* A fresh fixture: MA = MatrixArray(length=length, rank=rank)
NewArray ==
    /\ bench.stage = "real" \/ bench.loop # NoValue
    /\ bench' = [bench EXCEPT
            !.loop = NoValue,
            !.MA = MatrixArray(bench.d.length, BenchRank, "Real", BenchTypes),
            !.set = [pr \in DOMAIN bench.set |-> [i \in 1..bench.d.length |-> 0]],
            !.nsets = 0,
            !.orig = Zeros(bench.d.length, BenchRank),
            !.stage = "new"]
    /\ UNCHANGED solverVars

\* MA[a,b] = series
SetPair(a, b, series) ==
    /\ bench.stage = "new"
    /\ bench.loop = NoValue
    /\ bench.nsets < MaxSets
    /\ bench' = [bench EXCEPT
            !.MA = setitem(bench.MA, a, b, series),
            !.set[UnorderedPair(a, b)] = series,
            !.nsets = @ + 1]
    /\ UNCHANGED solverVars

\* d.MatrixArray_to_fourier(MA)
ToFourier ==
    LET res == MatrixArray_to_fourier(bench.d, bench.MA)
    IN  /\ bench.stage = "new"
        /\ res.ok
        /\ bench' = [bench EXCEPT !.MA = res.m, !.orig = bench.MA.data,
                                  !.stage = "fourier"]
        /\ UNCHANGED solverVars

\* d.MatrixArray_to_real(MA)
ToReal ==
    LET res == MatrixArray_to_real(bench.d, bench.MA)
    IN  /\ res.ok
        /\ bench' = [bench EXCEPT !.MA = res.m, !.stage = "real"]
        /\ UNCHANGED solverVars

NextDomain ==
    \/ \E f \in AllSeries(bench.d.length) : test_array_loop(f)
    \/ NewArray
    \/ \E a, b \in 0..(BenchRank - 1) : \E s \in TestArrays(bench.d.length) : SetPair(a, b, s)
    \/ ToFourier
    \/ ToReal

SpecDomain == InitDomain /\ [][NextDomain]_vars

\* C7: for a domain of any of the lengths and any real series f of that
\* length, to_real(to_fourier(f)) equals f within tolerance; and
\* MatrixArray_to_real after MatrixArray_to_fourier restores every (row, col)
\* series of the MatrixArray to the values it had before.
C7_RoundTrip ==
    /\ bench.loop # NoValue =>
        \A i \in 1..bench.d.length : Close(bench.loop.v.h[i], bench.loop.v.f[i])
    /\ bench.stage = "real" =>
        \A i \in 1..bench.d.length : \A p, q \in 1..BenchRank :
            Close(bench.MA.data[i][p][q], bench.orig[i][p][q])

\* A MatrixArray with a non-zero off-diagonal series has gone to Fourier
\* space and back on a grid of three points, and a non-zero scalar series
\* has made the same trip.
C7_Witness ==
    /\ bench.d.length = 3
    /\ bench.stage = "real"
    /\ \E i \in 1..3 : bench.orig[i][2][3] # 0
    /\ bench.MA.space = "Real"
    /\ bench.loop # NoValue
    /\ \E i \in 1..3 : bench.loop.v.f[i] # 0
    /\ bench.loop.v.g # bench.loop.v.f

\* C8: a MatrixArray stays symmetric under pair-indexed writes and under the
\* whole-field transform: after MA[a,b] = s both (a,b) and (b,a) return s, and
\* after MatrixArray_to_fourier each pair and its mirror hold to_fourier of
\* the series set for that pair alone (an unset pair: of the zero series).
C8_Symmetric ==
    /\ bench.stage = "new" =>
        \A a, b \in 0..(BenchRank - 1) :
            getitem(bench.MA, a, b) = bench.set[UnorderedPair(a, b)]
    /\ bench.stage = "fourier" =>
        \A a, b \in 0..(BenchRank - 1) :
            getitem(bench.MA, a, b) = to_fourier(bench.d, bench.set[UnorderedPair(a, b)])

\* Two pairs were set, one of them (1,2), pair (0,1) was not, and the field
\* is in Fourier space with a non-zero series at the mirror (2,1).
C8_Witness ==
    /\ bench.stage = "fourier"
    /\ bench.nsets = 2
    /\ \E i \in 1..bench.d.length : bench.set[<<1, 2>>][i] # 0
    /\ \A i \in 1..bench.d.length : bench.set[<<0, 1>>][i] = 0
    /\ \E i \in 1..bench.d.length : getitem(bench.MA, 2, 1)[i] # 0
    /\ \A i \in 1..bench.d.length : getitem(bench.MA, 1, 0)[i] = 0

---------------------------------------------------------------------------
(* System specifications.  The caller builds one and hands it to PRISM;    *)
(* it is an object whose attributes refer to further mutable objects: the  *)
(* domain, the type list, the closure and omega pair tables and the two    *)
(* density matrices.                                                       *)

Types(rank) == IF rank = 1 THEN <<"A">> ELSE <<"A", "B">>

HardCore(n, c) == [i \in 1..n |-> IF i <= c THEN Inf ELSE 0]

PY(U) == [PercusYevick EXCEPT !.potential = Some(U)]

MolecularClosure == [kind |-> "Molecular", potential |-> NoValue, value |-> NoValue]

OtherClosure == [kind |-> "Other", potential |-> NoValue, value |-> NoValue]

\* rho^site[i][j] = rho[i] + rho[j] (i # j), rho[i] (i = j)
SiteDensity(rho) ==
    [i \in 1..Len(rho) |-> [j \in 1..Len(rho) |->
        IF i = j THEN rho[i] ELSE rho[i] + rho[j]]]

\* rho^pair[i][j] = rho[i] * rho[j]
PairDensity(rho) ==
    [i \in 1..Len(rho) |-> [j \in 1..Len(rho) |-> Mul(rho[i], rho[j])]]

\* closures and omegas are given per unordered pair, in iterpairs order; an
\* omega entry is the series its provider returns for the domain's k.
System(rank, length, dr, closures, omegas, rho) ==
    [rank |-> rank,
     domain |-> Domain(length, dr),
     types |-> Types(rank),
     closure |-> closures,
     omega |-> omegas,
     siteDensityMatrix |-> SiteDensity(rho),
     pairDensityMatrix |-> PairDensity(rho)]

Half == Scale \div 2

Systems ==
    { \* one site type, one grid point: a hard core and a strong omega
      System(1, 1, Half, <<PY(HardCore(1, 1))>>, << <<Scale>> >>, <<Fix(2)>>),
      \* one site type, two grid points
      System(1, 2, Scale, <<PY(HardCore(2, 1))>>, << <<Scale, Half>> >>, <<Half>>),
      \* two site types, two grid points, Percus-Yevick on every pair
      System(2, 2, Scale,
             <<PY(HardCore(2, 1)), PY(HardCore(2, 0)), PY(HardCore(2, 2))>>,
             << <<Scale, Half>>, <<0, 0>>, <<Scale, Scale>> >>,
             <<Half, Scale>>),
      \* two site types, one grid point
      System(2, 1, Scale,
             <<PY(HardCore(1, 1)), PY(<<Scale>>), PY(HardCore(1, 0))>>,
             << <<Scale>>, <<Half>>, <<Scale>> >>,
             <<Scale, Half>>),
      \* a molecular closure on the cross pair
      System(2, 1, Scale,
             <<PY(HardCore(1, 1)), MolecularClosure, PY(HardCore(1, 0))>>,
             << <<Scale>>, <<0>>, <<Scale>> >>,
             <<Scale, Scale>>),
      \* an unrecognized closure on the cross pair, a molecular one after it
      System(2, 1, Scale,
             <<PY(HardCore(1, 1)), OtherClosure, MolecularClosure>>,
             << <<Scale>>, <<0>>, <<Scale>> >>,
             <<Scale, Scale>>) }

\* The attributes of a System object that refer to objects of their own.
Fields == <<"domain", "types", "closure", "omega",
            "siteDensityMatrix", "pairDensityMatrix">>

\* The objects of specification v laid out from address a: the System object
\* at a, the object of its i-th field at a + i.
Store(v, a) ==
    [b \in a..(a + Len(Fields)) |->
        IF b = a
        THEN [rank |-> v.rank] @@ [f \in {Fields[i] : i \in 1..Len(Fields)} |->
                 a + (CHOOSE i \in 1..Len(Fields) : Fields[i] = f)]
        ELSE v[Fields[b - a]]]

\* The specification reached from the System object at address a.
SysOf(h, a) ==
    [rank |-> h[a].rank] @@
    [f \in {Fields[i] : i \in 1..Len(Fields)} |-> h[h[a][f]]]

\* The addresses reached from the System object at address a.
Reach(h, a) == {a} \cup {h[a][Fields[i]] : i \in 1..Len(Fields)}

MaxAddr(h) == CHOOSE b \in DOMAIN h : \A c \in DOMAIN h : c <= b

\* sys handed on as it is: no copy.
sharedref(h, a) == [heap |-> h, ref |-> a]

\* copy.deepcopy(sys): a new System object with new objects for its fields.
deepcopy(h, a) ==
    LET to == MaxAddr(h) + 1
    IN  [heap |-> h @@ Store(SysOf(h, a), to), ref |-> to]

---------------------------------------------------------------------------
(* PRISM.__init__                                                          *)

\* table.apply(lambda x: x.calculate(k)).exportToMatrixArray(space): the
\* series of every unordered pair written to the pair and its mirror.
RECURSIVE exportPairs(_, _, _, _)
exportPairs(m, types, table, j) ==
    IF j = 0 THEN m
    ELSE LET pr == PairSeq(Len(types))[j]
         IN  setitem(exportPairs(m, types, table, j - 1),
                     types[pr[1]], types[pr[2]], table[j])

exportToMatrixArray(v, space) ==
    exportPairs(MatrixArray(v.domain.length, v.rank, space, v.types),
                v.types, v.omega, Len(v.omega))

ZeroVector(n) == [i \in 1..n |-> 0]

\* The objects made by the constructor, by id, and the attribute each is
\* bound to.  IOC is bound by funk alone.
Constructed ==
    [omega |-> 1, directCorr |-> 2, totalCorr |-> 3, GammaIn |-> 4,
     GammaOut |-> 5, OC |-> 6, I |-> 7]

Unbound == 0

\* PRISM(sys) for the System object at address a: [heap, self, arrays].
PRISM_init(h, a) ==
    LET cp  == deepcopy(h, a)
        own == SysOf(cp.heap, cp.ref)
        sys == SysOf(h, a)
        n   == sys.domain.length
        omega == imulMatrix(exportToMatrixArray(own, "Fourier"),
                            sys.siteDensityMatrix)
    IN  [heap |-> cp.heap,
         self |-> [sys |-> cp.ref,
                   x |-> ZeroVector(sys.rank * sys.rank * n),
                   y |-> ZeroVector(sys.rank * sys.rank * n)] @@ Constructed @@ [IOC |-> Unbound],
         arrays |->
            <<omega,
              MatrixArray(n, sys.rank, "Real", sys.types),
              MatrixArray(n, sys.rank, "Fourier", sys.types),
              MatrixArray(n, sys.rank, "Real", sys.types),
              MatrixArray(n, sys.rank, "Real", sys.types),
              MatrixArray(n, sys.rank, "Fourier", sys.types),
              IdentityMatrixArray(n, sys.rank, "Fourier", sys.types)>>]

---------------------------------------------------------------------------
(* PRISM.funk, statement by statement.  Each statement takes the machine   *)
(* m = [heap, self, arrays, outcome, ret, obs] to the machine after it; a  *)
(* statement that raises sets outcome, and the statements after it are     *)
(* skipped.  obs records what the call did, for the properties below.      *)

Enter(h, s, a) ==
    [heap |-> h, self |-> s, arrays |-> a, outcome |-> "run", ret |-> NoValue,
     obs |-> [dispatch |-> <<>>, toFourier |-> NoValue, toReal |-> NoValue,
              operands |-> {}, allocated |-> 0]]

\* An id for the object a statement allocates for attribute at: one the
\* object bound now does not have, and no constructed object has.
FreshId(s, at) ==
    LET base == CHOOSE i \in 1..4 : <<"OC", "IOC", "totalCorr", "GammaOut">>[i] = at
    IN  IF s[at] = 7 + base THEN 11 + base ELSE 7 + base

\* self.at = obj for a newly allocated obj: the attribute is rebound, and the
\* object it was bound to is garbage.
Rebind(m, at, obj) ==
    LET new  == FreshId(m.self, at)
        live == (DOMAIN m.arrays \ {m.self[at]}) \cup {new}
    IN  [m EXCEPT
            !.self[at] = new,
            !.arrays = [i \in live |-> IF i = new THEN obj ELSE m.arrays[i]],
            !.obs.allocated = @ + 1]

\* self.x = x
funk_store(m, x) == [m EXCEPT !.self.x = x]

\* The reshaped vector added to what GammaIn holds, where the shapes agree.
funk_reshape_accumulate(m, x) ==
    LET rk  == SysOf(m.heap, m.self.sys).rank
        sq  == rk * rk
        old == m.arrays[m.self.GammaIn].data
    IN  IF m.outcome # "run" THEN m
        ELSE IF Len(x) % sq # 0
        THEN [m EXCEPT !.outcome = "ValueError: cannot reshape array"]
        ELSE [m EXCEPT !.arrays[m.self.GammaIn].data =
                [i \in 1..(Len(x) \div sq) |->
                    [p \in 1..rk |-> [q \in 1..rk |->
                        x[(i - 1) * sq + (p - 1) * rk + q]
                          + (IF i <= Len(old) THEN old[i][p][q] ELSE 0)]]]]

\* self.GammaIn.data = np.copy(x.reshape((-1, rank, rank)))
funk_reshape(m, x) ==
    LET rk == SysOf(m.heap, m.self.sys).rank
        sq == rk * rk
    IN  IF m.outcome # "run" THEN m
        ELSE IF Len(x) % sq # 0
        THEN [m EXCEPT !.outcome = "ValueError: cannot reshape array"]
        ELSE [m EXCEPT !.arrays[m.self.GammaIn].data =
                [i \in 1..(Len(x) \div sq) |->
                    [p \in 1..rk |-> [q \in 1..rk |->
                        x[(i - 1) * sq + (p - 1) * rk + q]]]]]

\* self.GammaIn /= self.sys.domain.long_r
funk_scale(m) ==
    LET d  == SysOf(m.heap, m.self.sys).domain
        G  == m.arrays[m.self.GammaIn]
        lr == long_r(d)
    IN  IF m.outcome # "run" THEN m
        ELSE IF Len(G.data) # d.length /\ d.length # 1
        THEN [m EXCEPT !.outcome = "ValueError: operands could not be broadcast together"]
        ELSE [m EXCEPT !.arrays[m.self.GammaIn].data =
                [i \in 1..Len(G.data) |->
                    [p \in 1..G.rank |-> [q \in 1..G.rank |->
                        Div(G.data[i][p][q], lr[IF d.length = 1 THEN 1 ELSE i])]]]]

\* The tag directCorr carries into the closure loop, left as it is.
KeepSpace(space) == space

\* self.directCorr.space = Space.Real
ResetSpace(space) == "Real"

funk_reset(m) ==
    IF m.outcome # "run" THEN m
    ELSE [m EXCEPT !.arrays[m.self.directCorr].space = ResetSpace(@)]

\* A dispatch that passes a molecular closure by.
DispatchLenient(kind) ==
    CASE kind = "Atomic"    -> "calculate"
      [] kind = "Molecular" -> "skip"
      [] OTHER              -> "ValueError: Closure type not recognized"

\* The isinstance chain of the closure loop.
Dispatch(kind) ==
    CASE kind = "Atomic"    -> "calculate"
      [] kind = "Molecular" -> "NotImplementedError"
      [] OTHER              -> "ValueError: Closure type not recognized"

\* One pass of the loop body, for the j-th pair of the closure table.
funk_closure(m, j) ==
    LET tab == m.heap[m.self.sys].closure
        v   == SysOf(m.heap, m.self.sys)
        pr  == PairSeq(v.rank)[j]
        t1  == v.types[pr[1]]
        t2  == v.types[pr[2]]
        c   == v.closure[j]
        act == Dispatch(c.kind)
        res == calculate(c, getitem(m.arrays[m.self.GammaIn], t1, t2))
        seen(did) == Append(m.obs.dispatch, [pair |-> pr, kind |-> c.kind, did |-> did])
    IN  IF act = "calculate"
        THEN IF res.outcome # "ok"
             THEN [m EXCEPT !.outcome = res.outcome, !.obs.dispatch = seen(res.outcome)]
             ELSE [m EXCEPT
                     !.heap[tab][j] = res.closure,
                     !.arrays[m.self.directCorr] = setitem(@, t1, t2, res.ret.v),
                     !.obs.dispatch = seen("written")]
        ELSE IF act = "skip"
        THEN [m EXCEPT !.obs.dispatch = seen("skipped")]
        ELSE [m EXCEPT !.outcome = act, !.obs.dispatch = seen(act)]

\* for (i,j),(t1,t2),closure in self.sys.closure.iterpairs(): ...
RECURSIVE funk_closures(_, _)
funk_closures(m, j) ==
    IF m.outcome # "run" \/ j > Len(SysOf(m.heap, m.self.sys).closure) THEN m
    ELSE funk_closures(funk_closure(m, j), j + 1)

\* self.sys.domain.MatrixArray_to_fourier(self.directCorr)
funk_to_fourier(m) ==
    LET C   == m.arrays[m.self.directCorr]
        res == MatrixArray_to_fourier(SysOf(m.heap, m.self.sys).domain, C)
    IN  IF m.outcome # "run" THEN m
        ELSE IF ~res.ok
        THEN [m EXCEPT !.outcome = "ValueError: space mismatch",
                       !.obs.toFourier = Some(C)]
        ELSE [m EXCEPT !.arrays[m.self.directCorr] = res.m,
                       !.obs.toFourier = Some(C)]

\* The operands of a dot or a subtraction, noted and checked to be in one
\* space.
Operands(m, A, B) == [m EXCEPT !.obs.operands = @ \cup {A.space, B.space}]

SpaceError(m, A, B) ==
    [Operands(m, A, B) EXCEPT
        !.outcome = "AssertionError: Attempting MatrixArray math in non-matching spaces"]

\* self.OC = self.omega.dot(self.directCorr)
funk_OC(m) ==
    LET A == m.arrays[m.self.omega]
        B == m.arrays[m.self.directCorr]
    IN  IF m.outcome # "run" THEN m
        ELSE IF A.space # B.space THEN SpaceError(m, A, B)
        ELSE Rebind(Operands(m, A, B), "OC", dot(A, B))

\* self.IOC = self.I - self.OC ; self.IOC.invert(inplace=True)
funk_IOC(m) ==
    LET A  == m.arrays[m.self.I]
        B  == m.arrays[m.self.OC]
        m1 == Rebind(Operands(m, A, B), "IOC", sub(A, B))
    IN  IF m.outcome # "run" THEN m
        ELSE IF A.space # B.space THEN SpaceError(m, A, B)
        ELSE IF Singular(sub(A, B))
        THEN [m1 EXCEPT !.outcome = "LinAlgError: Singular matrix"]
        ELSE [m1 EXCEPT !.arrays[m1.self.IOC] = invert(@)]

\* self.totalCorr = self.IOC.dot(self.OC).dot(self.omega)
\* self.totalCorr /= self.sys.pairDensityMatrix
funk_totalCorr(m) ==
    LET A == m.arrays[m.self.IOC]
        B == m.arrays[m.self.OC]
        W == m.arrays[m.self.omega]
        m1 == [Operands(Operands(m, A, B), B, W) EXCEPT !.obs.allocated = @ + 1]
    IN  IF m.outcome # "run" THEN m
        ELSE IF A.space # B.space THEN SpaceError(m, A, B)
        ELSE IF B.space # W.space THEN SpaceError(m, B, W)
        ELSE Rebind(m1, "totalCorr",
                    idivMatrix(dot(dot(A, B), W),
                               SysOf(m.heap, m.self.sys).pairDensityMatrix))

\* self.GammaOut = self.totalCorr - self.directCorr
funk_GammaOut(m) ==
    LET A == m.arrays[m.self.totalCorr]
        B == m.arrays[m.self.directCorr]
    IN  IF m.outcome # "run" THEN m
        ELSE IF A.space # B.space THEN SpaceError(m, A, B)
        ELSE Rebind(Operands(m, A, B), "GammaOut", sub(A, B))

\* self.sys.domain.MatrixArray_to_real(self.GammaOut)
funk_to_real(m) ==
    LET G   == m.arrays[m.self.GammaOut]
        res == MatrixArray_to_real(SysOf(m.heap, m.self.sys).domain, G)
    IN  IF m.outcome # "run" THEN m
        ELSE IF ~res.ok
        THEN [m EXCEPT !.outcome = "ValueError: space mismatch",
                       !.obs.toReal = Some(G)]
        ELSE [m EXCEPT !.arrays[m.self.GammaOut] = res.m,
                       !.obs.toReal = Some(G)]

\* y.reshape((-1,)): the rows of y one after the other.
Flatten(y, rank) ==
    [n \in 1..(Len(y) * rank * rank) |->
        y[((n - 1) \div (rank * rank)) + 1]
         [(((n - 1) % (rank * rank)) \div rank) + 1]
         [((n - 1) % rank) + 1]]

\* self.y = self.sys.domain.long_r*(self.GammaOut.data - self.GammaIn.data)
\* return self.y.reshape((-1,))
funk_return(m) ==
    LET d  == SysOf(m.heap, m.self.sys).domain
        Go == m.arrays[m.self.GammaOut]
        Gi == m.arrays[m.self.GammaIn]
        lr == long_r(d)
        y  == [i \in 1..d.length |->
                 [p \in 1..Go.rank |-> [q \in 1..Go.rank |->
                    Mul(lr[i], Go.data[i][p][q] - Gi.data[i][p][q])]]]
    IN  IF m.outcome # "run" THEN m
        ELSE [m EXCEPT !.self.y = y, !.ret = Some(Flatten(y, Go.rank)),
                       !.outcome = "ok"]

\* funk(x) on the solver [heap, self, arrays]: the machine after the call.
funk(h, s, a, x) ==
    funk_return(funk_to_real(funk_GammaOut(funk_totalCorr(funk_IOC(funk_OC(
        funk_to_fourier(funk_closures(funk_reset(funk_scale(funk_reshape(
            funk_store(Enter(h, s, a), x), x))), 1))))))))

---------------------------------------------------------------------------
(* Calls of funk on one solver.                                            *)

Dim(v) == v.rank * v.rank * v.domain.length

\* The vector with entries a, a - 1/4, a - 2/4, ...
Ramp(n, a) == [i \in 1..n |-> Fix(a) - (i - 1) * (Scale \div 4)]

\* The vectors funk is called with: of the solver's dimension, one block too
\* long, and one entry too long.
Vectors(v) ==
    {Ramp(Dim(v), a) : a \in -MaxX..MaxX}
        \cup {ZeroVector(Dim(v) + v.rank * v.rank), ZeroVector(Dim(v) + 1)}

NoCall ==
    [x |-> <<>>, outcome |-> "none", ret |-> NoValue,
     obs |-> Enter(<<>>, <<>>, <<>>).obs, prev |-> "none"]

Idle == [pc |-> "idle"]

\* The caller builds a specification and constructs a solver from it.
Construct(v) ==
    LET p == PRISM_init(Store(v, 1), 1)
    IN  /\ caller = [sys |-> 1, system |-> v, mutations |-> 0, seen |-> 0]
        /\ heap = p.heap
        /\ self = p.self
        /\ arrays = p.arrays
        /\ call = NoCall
        /\ run = Idle
        /\ bench = <<>>

Init == \E v \in Systems : Construct(v)

CallFunk(x) ==
    LET m == funk(heap, self, arrays, x)
    IN  /\ heap' = m.heap
        /\ self' = m.self
        /\ arrays' = m.arrays
        /\ call' = [x |-> x, outcome |-> m.outcome, ret |-> m.ret,
                    obs |-> m.obs, prev |-> call.outcome]

\* The caller calls funk(x) directly, after the changes it has made to its
\* own specification so far.
Funk(x) ==
    /\ run.pc = "idle"
    /\ CallFunk(x)
    /\ caller' = [caller EXCEPT !.seen = caller.mutations]
    /\ UNCHANGED <<run, bench>>

Next == \E x \in Vectors(caller.system) : Funk(x)

Spec == Init /\ [][Next]_vars

---------------------------------------------------------------------------
(* The caller changes, in place, the specification it built the solver     *)
(* from.                                                                   *)

Mutations ==
    {"domain", "types", "closure", "potential", "omega",
     "siteDensityMatrix", "pairDensityMatrix"}

MutatedField(mu) == IF mu = "potential" THEN "closure" ELSE mu

Doubled(M) == [i \in DOMAIN M |-> [j \in DOMAIN M[i] |-> 2 * M[i][j]]]

\* The object of field mu after the caller's change to it.
Mutated(mu, obj) ==
    CASE mu = "domain"    -> Domain(obj.length, 2 * obj.dr)
      [] mu = "types"     -> [i \in DOMAIN obj |-> obj[Len(obj) + 1 - i]]
      [] mu = "closure"   -> [j \in DOMAIN obj |-> MolecularClosure]
      [] mu = "potential" ->
            [j \in DOMAIN obj |->
                IF obj[j].potential = NoValue THEN obj[j]
                ELSE [obj[j] EXCEPT !.potential =
                        Some([i \in DOMAIN obj[j].potential.v |-> Scale])]]
      [] mu = "omega"     -> [j \in DOMAIN obj |-> [i \in DOMAIN obj[j] |-> 0]]
      [] OTHER            -> Doubled(obj)

MutateCaller(mu) ==
    LET at == heap[caller.sys][MutatedField(mu)]
    IN  /\ run.pc = "idle"
        /\ caller.mutations < MaxMutations
        /\ heap' = [heap EXCEPT ![at] = Mutated(mu, @)]
        /\ caller' = [caller EXCEPT !.mutations = @ + 1]
        /\ UNCHANGED <<self, arrays, call, run, bench>>

\* The systems and vectors of the runs with a changing caller.
CallerSystems == {v \in Systems : v.domain.length = 1}

CallerVectors(v) == {ZeroVector(Dim(v)), Ramp(Dim(v), MaxX)}

InitCaller == \E v \in CallerSystems : Construct(v)

NextCaller ==
    \/ \E x \in CallerVectors(caller.system) : Funk(x)
    \/ \E mu \in Mutations : MutateCaller(mu)

SpecCaller == InitCaller /\ [][NextCaller]_vars

---------------------------------------------------------------------------
(* PRISM.solve.  scipy.optimize.root is the caller's library, not code of  *)
(* the solver: it is modelled by what any root finder does with the        *)
(* function it is handed.  It evaluates funk at the seed, then at trial    *)
(* vectors of its own choosing, keeps as its iterate the last trial it     *)
(* accepted, and ends by reporting the iterate with a convergence flag.   *)
(* An exception raised by funk leaves root and solve.                      *)

Methods == {"krylov", "hybr"}

\* The seed with the caller's guess passed over.
SolveSeedZeros(guess, v) == ZeroVector(Dim(v))

\* if guess is None: guess = np.zeros(rank*rank*length)
SolveSeed(guess, v) ==
    IF guess = NoValue THEN ZeroVector(Dim(v)) ELSE guess.v

\* The guesses a caller passes: none, one of the solver's dimension, one too
\* long.
Guesses(v) ==
    {NoValue, Some(Ramp(Dim(v), MaxX)), Some(ZeroVector(Dim(v) + v.rank * v.rank))}

\* The a-th vector the root finder may try: of the seed's dimension.
Trial(seed, a) == Ramp(Len(seed), a)

\* solve(guess, method): up to the call of root.
SolveStart(guess, method) ==
    /\ run.pc = "idle"
    /\ run' = [pc |-> "root", guess |-> guess, method |-> method,
               started |-> 1,
               root |-> [x0 |-> SolveSeed(guess, SysOf(heap, self.sys)),
                         method |-> method, nfev |-> 0, iterate |-> NoValue,
                         last |-> NoValue],
               result |-> NoValue, ret |-> NoValue, raised |-> "none"]
    /\ UNCHANGED <<caller, heap, self, arrays, call, bench>>

\* root evaluates funk at x; accept says whether x becomes its iterate.
Evaluate(x, accept) ==
    /\ CallFunk(x)
    /\ run' = IF call'.outcome = "ok"
              THEN [run EXCEPT !.root.nfev = @ + 1,
                               !.root.last = Some(x),
                               !.root.iterate = IF accept THEN Some(x) ELSE @]
              ELSE [run EXCEPT !.root.nfev = @ + 1,
                               !.root.last = Some(x),
                               !.pc = "raised", !.raised = call'.outcome]
    /\ UNCHANGED <<caller, bench>>

\* The first evaluation: at the seed, which is the first iterate.
RootFirst ==
    /\ run.pc = "root"
    /\ run.root.nfev = 0
    /\ Evaluate(run.root.x0, TRUE)

\* A later evaluation, at a trial vector the root finder accepts or rejects.
RootTrial(a, accept) ==
    /\ run.pc = "root"
    /\ run.root.nfev \in 1..MaxEvals
    /\ Evaluate(Trial(run.root.x0, a), accept)

\* root ends: the result object is the iterate and the flag.
RootEnd(success) ==
    /\ run.pc = "root"
    /\ run.root.nfev >= 1
    /\ run' = [run EXCEPT
                 !.pc = "result",
                 !.result = Some([x |-> run.root.iterate.v, success |-> success,
                                  method |-> run.root.method])]
    /\ UNCHANGED <<caller, heap, self, arrays, call, bench>>

\* return result
SolveReturn ==
    /\ run.pc = "result"
    /\ run' = [run EXCEPT !.pc = "returned", !.ret = run.result]
    /\ UNCHANGED <<caller, heap, self, arrays, call, bench>>

SolveSystems == {v \in Systems : v.rank = 1}

InitSolve == \E v \in SolveSystems : Construct(v)

NextSolve ==
    \/ \E g \in Guesses(caller.system), method \in Methods : SolveStart(g, method)
    \/ RootFirst
    \/ \E a \in -MaxX..MaxX, accept \in BOOLEAN : RootTrial(a, accept)
    \/ \E success \in BOOLEAN : RootEnd(success)
    \/ SolveReturn

SpecSolve == InitSolve /\ [][NextSolve]_vars

---------------------------------------------------------------------------
(* Properties of funk.                                                     *)

\* funk(x) on a solver newly constructed from the caller's specification.
FreshFunk(x) ==
    LET p == PRISM_init(Store(caller.system, 1), 1)
    IN  funk(p.heap, p.self, p.arrays, x)

\* C1: whatever calls came before it (aborted ones included), a funk call
\* ends as, and returns what, funk does for the same vector on a newly
\* constructed solver; so the residual depends on the vector and the system
\* alone, and a repeated call repeats its output.
C1_FunkDependsOnInputOnly ==
    call.outcome # "none" =>
        /\ call.outcome = FreshFunk(call.x).outcome
        /\ call.ret = FreshFunk(call.x).ret

\* A residual returned by a call that follows an aborted call which left
\* GammaIn with another shape.
C1_Witness ==
    /\ call.outcome = "ok"
    /\ call.prev = "AssertionError: Domain mismatch!"
    /\ \E i \in DOMAIN call.x : call.x[i] # 0

ErrorsOfCalculate ==
    {"AssertionError: Potential for this closure is not set!",
     "AssertionError: Domain mismatch!",
     "ValueError: operands could not be broadcast together"}

\* C3: the pairs a funk call dispatches are the pairs of the closure table
\* in order, none passed by; an atomic closure's calculate result is what
\* directCorr holds for the pair and its mirror when the loop is over, a
\* molecular closure ends the call with NotImplementedError, any other kind
\* with the unrecognized-type ValueError; and a call on a system with a
\* non-atomic closure never returns a residual.
C3_ClosureDispatch ==
    call.outcome # "none" =>
        LET v   == SysOf(heap, self.sys)
            d   == call.obs.dispatch
            prs == PairSeq(v.rank)
        IN  /\ Len(d) <= Len(v.closure)
            /\ \A j \in 1..Len(d) :
                /\ d[j].pair = prs[j]
                /\ d[j].kind = v.closure[j].kind
                /\ j < Len(d) => d[j].did = "written"
                /\ d[j].did # "written" => call.outcome = d[j].did
                /\ d[j].kind = "Atomic" =>
                      d[j].did \in {"written"} \cup ErrorsOfCalculate
                /\ d[j].kind = "Molecular" => d[j].did = "NotImplementedError"
                /\ d[j].kind \notin {"Atomic", "Molecular"} =>
                      d[j].did = "ValueError: Closure type not recognized"
            /\ call.obs.toFourier # NoValue =>
                /\ Len(d) = Len(v.closure)
                /\ \A j \in 1..Len(d) :
                      LET t1  == v.types[prs[j][1]]
                          t2  == v.types[prs[j][2]]
                          res == calculate(v.closure[j],
                                           getitem(arrays[self.GammaIn], t1, t2))
                      IN  /\ d[j].did = "written"
                          /\ res.outcome = "ok"
                          /\ getitem(call.obs.toFourier.v, t1, t2) = res.ret.v
                          /\ getitem(call.obs.toFourier.v, t2, t1) = res.ret.v
                          /\ v.closure[j].value = res.ret
            /\ call.outcome = "ok" => call.obs.toFourier # NoValue
            /\ (\E j \in 1..Len(v.closure) : v.closure[j].kind # "Atomic") =>
                  call.outcome # "ok"

\* A call that ended at a molecular closure after an atomic pair was written.
C3_Witness ==
    /\ call.outcome = "NotImplementedError"
    /\ Len(call.obs.dispatch) = 2
    /\ call.obs.dispatch[1].did = "written"

SpaceErrors ==
    {"ValueError: space mismatch",
     "AssertionError: Attempting MatrixArray math in non-matching spaces"}

\* C9: in a funk call, after whatever calls came before, directCorr goes
\* into MatrixArray_to_fourier tagged Real and GammaOut into
\* MatrixArray_to_real tagged Fourier, every dot and subtraction has
\* Fourier-tagged operands, no call ends with a space error, and a call
\* that returns leaves directCorr and totalCorr tagged Fourier, GammaIn and
\* GammaOut tagged Real.
C9_SpaceTags ==
    call.outcome # "none" =>
        /\ call.obs.toFourier # NoValue => call.obs.toFourier.v.space = "Real"
        /\ call.obs.toReal # NoValue => call.obs.toReal.v.space = "Fourier"
        /\ call.obs.operands \subseteq {"Fourier"}
        /\ call.outcome \notin SpaceErrors
        /\ call.outcome = "ok" =>
              /\ arrays[self.directCorr].space = "Fourier"
              /\ arrays[self.totalCorr].space = "Fourier"
              /\ arrays[self.GammaIn].space = "Real"
              /\ arrays[self.GammaOut].space = "Real"

\* A call that returns after a call that aborted, at the inversion, with
\* directCorr already transformed.
C9_Witness ==
    /\ call.outcome = "ok"
    /\ call.prev = "LinAlgError: Singular matrix"
    /\ call.obs.operands = {"Fourier"}

WorkingSet ==
    {"directCorr", "totalCorr", "GammaIn", "GammaOut", "OC", "IOC", "I"}

\* C10: after a funk call that returns, every working-set attribute refers
\* to an object made by the constructor, and the call allocated no
\* MatrixArray.
C10_AllocatedOnce ==
    call.outcome = "ok" =>
        /\ \A at \in WorkingSet :
              at \in DOMAIN Constructed /\ self[at] = Constructed[at]
        /\ call.obs.allocated = 0

\* A closure table with the values its closures computed last left out.
Unvalued(tab) == [j \in DOMAIN tab |-> [tab[j] EXCEPT !.value = NoValue]]

\* C4: whatever the caller has done to its specification since the solver
\* was constructed, the solver reaches no object the caller reaches, the
\* specification it holds is the one it was constructed from, and a funk
\* call ends as, and returns what, it does on a solver constructed from the
\* unchanged specification.
C4_IsolatedFromCaller ==
    LET own == SysOf(heap, self.sys)
    IN  /\ Reach(heap, self.sys) \cap Reach(heap, caller.sys) = {}
        /\ [own EXCEPT !.closure = Unvalued(@)] = caller.system
        /\ call.outcome # "none" =>
              /\ call.outcome = FreshFunk(call.x).outcome
              /\ call.ret = FreshFunk(call.x).ret

\* A residual returned by a call made after the caller changed the
\* specification it still holds.
C4_Witness ==
    /\ call.outcome = "ok"
    /\ caller.seen > 0
    /\ SysOf(heap, caller.sys) # caller.system

---------------------------------------------------------------------------
(* Properties of solve.                                                    *)

\* C5: a solve call starts one run of the root finder, over funk, with the
\* method asked for and the seed the caller's guess or, without one, the
\* zero vector of rank*rank*length entries; what it returns is that run's
\* result object, converged or not; and it raises only what funk raised.
C5_OneRunResultUnchanged ==
    run.pc # "idle" =>
        /\ run.started = 1
        /\ run.root.method = run.method
        /\ run.root.x0 = IF run.guess = NoValue
                         THEN ZeroVector(Dim(caller.system))
                         ELSE run.guess.v
        /\ run.pc = "returned" =>
              /\ run.ret = run.result
              /\ run.ret # NoValue
              /\ run.raised = "none"
        /\ run.pc = "raised" =>
              /\ run.raised = call.outcome
              /\ run.raised # "ok"
              /\ run.ret = NoValue

\* solve returned an unconverged result of a run seeded with the caller's
\* guess.
C5_Witness ==
    /\ run.pc = "returned"
    /\ run.guess # NoValue
    /\ ~run.ret.v.success
    /\ run.root.nfev > 1

\* The fields a solver holds: x, y and the data of the four field buffers.
Buffers(s, a) ==
    [x |-> s.x, y |-> s.y,
     GammaIn |-> a[s.GammaIn].data, directCorr |-> a[s.directCorr].data,
     totalCorr |-> a[s.totalCorr].data, GammaOut |-> a[s.GammaOut].data]

\* The fields funk produces for x.
FieldsOf(x) == Buffers(FreshFunk(x).self, FreshFunk(x).arrays)

\* C6: when solve has returned, the solver's buffers hold the fields funk
\* produces for the result's vector if the result's flag says converged,
\* and those of the last vector the root finder tried if it does not.
C6_BuffersHoldResult ==
    run.pc = "returned" =>
        IF run.ret.v.success
        THEN Buffers(self, arrays) = FieldsOf(run.ret.v.x)
        ELSE Buffers(self, arrays) = FieldsOf(run.root.last.v)

====
